---------------------------- MODULE Spec2Model ----------------------------
(***************************************************************************)
(* Model of conventional-release-action: classification of the head        *)
(* commit message, resolution of the current version from tags,            *)
(* calculation of the next version and construction of the release commit, *)
(* its tag and the major-version branch.                                   *)
(*                                                                         *)
(* Text is modelled as a sequence of one-character strings.                *)
(***************************************************************************)
EXTENDS Integers, Sequences, FiniteSets, TLC

VARIABLES
    \* the run's inputs and locals (ReleaseApplication::run)
    pc,               \* position of the run
    dry_run,          \* Args.dry_run
    event_name,       \* GITHUB_EVENT_NAME
    event_path_set,   \* whether GITHUB_EVENT_PATH is set
    pr_title,         \* the pull request title of the event payload
    parsed,           \* result of ConventionalCommit::parse, or [kind |-> "unset"]
    message,          \* text of the head commit message (Commit.message)
    version_bump,     \* result of BumpType::from_conventional_commit, or "unset"
    current_version,  \* None or Some(version)
    new_version,      \* None or Some(version)
    main_commit,      \* create_release_commit: the commit HEAD resolved to, 0 before
    parents,          \* create_release_commit: the parents of the release commit
    commit_oid,       \* create_release_commit: the new commit, 0 before
    tag_name,         \* create_release_commit: the tag name, <<>> before
    branch_name,      \* the temporary branch push_commit_to_remote returned
    output,           \* what run returned: ActionOutput, an error, or an exit
    \* configuration (Config)
    config,
    \* the local repository
    commits,          \* the commit objects: oid i is commits[i]
    tags,             \* refs/tags: name -> oid (0: an object that is no commit)
    branches,         \* refs/heads: name -> oid
    head,             \* HEAD: on a branch, or detached at a commit
    files,            \* the working tree's state of each configured file
    index,            \* the configured files staged in the index
    default_branch,   \* the branch a checkout puts HEAD on
    built,            \* history: the builds create_release_commit returned Ok for
    \* the hosting platform
    gh_tags,          \* the tag names GitHubClient::get_tags returns
    gh_branches,      \* the remote's branches: name -> oid
    gh_releases,      \* the release records
    \* a second run that builds on the same repository
    other             \* its position and the locals of its create_release_commit

runVars == <<pc, dry_run, event_name, event_path_set, pr_title, parsed, message,
             version_bump, current_version, new_version, main_commit, parents,
             commit_oid, tag_name, branch_name, output>>
repoVars == <<commits, tags, branches, head, files, index, default_branch, built>>
ghVars == <<gh_tags, gh_branches, gh_releases>>
vars == <<runVars, config, repoVars, ghVars, other>>

----------------------------------------------------------------------------
(* Bounds *)

MaxTextLen == 3    \* length of the free text of a commit message
MaxGhTags == 2     \* tags of the platform's tag list at the start
MaxLocalTags == 2  \* tags of the local repository at the start
MaxRunCommits == 3 \* commit objects in a sequence of runs
MaxTags == 3       \* tags of a tag list that is resolved
MaxNum == 1        \* greatest component of a configured initial version

----------------------------------------------------------------------------
(* Text helpers (str methods of the Rust standard library) *)

NL == "\n"

Some(x) == <<x>>
None == <<>>

UpperChars == <<"A","B","C","D","E","F","G","H","I","J","K","L","M",
                "N","O","P","Q","R","S","T","U","V","W","X","Y","Z">>
LowerChars == <<"a","b","c","d","e","f","g","h","i","j","k","l","m",
                "n","o","p","q","r","s","t","u","v","w","x","y","z">>
DigitChars == <<"0","1","2","3","4","5","6","7","8","9">>

Range(s) == { s[i] : i \in DOMAIN s }

IsDigit(c) == c \in Range(DigitChars)
IsAlphabetic(c) == c \in Range(UpperChars) \cup Range(LowerChars)
IsWhitespace(c) == c \in {" ", NL, "\t", "\r"}

\* char::to_lowercase on the ASCII range
LowerChar(c) ==
    IF c \in Range(UpperChars)
    THEN LowerChars[CHOOSE i \in DOMAIN UpperChars : UpperChars[i] = c]
    ELSE c

\* str::to_lowercase
ToLowercase(s) == [i \in DOMAIN s |-> LowerChar(s[i])]

\* str::starts_with
StartsWith(s, p) == Len(p) <= Len(s) /\ SubSeq(s, 1, Len(p)) = p

\* str::ends_with
EndsWith(s, p) == Len(p) <= Len(s) /\ SubSeq(s, Len(s) - Len(p) + 1, Len(s)) = p

\* str::contains
Contains(s, p) ==
    \E i \in 1..(Len(s) - Len(p) + 1) : SubSeq(s, i, i + Len(p) - 1) = p

\* str::find(char): the 1-based position of the first occurrence, 0 when absent
Find(s, c) ==
    IF \E i \in DOMAIN s : s[i] = c
    THEN CHOOSE i \in DOMAIN s : s[i] = c /\ \A j \in 1..(i - 1) : s[j] # c
    ELSE 0

\* str::replace(c, ""): every occurrence of the character removed
RECURSIVE RemoveChar(_, _)
RemoveChar(s, c) ==
    IF s = <<>> THEN <<>>
    ELSE IF Head(s) = c THEN RemoveChar(Tail(s), c)
    ELSE <<Head(s)>> \o RemoveChar(Tail(s), c)

\* no split: the whole text as one piece
Split_whole(s, c) == <<s>>

\* str::split(char): the pieces between the occurrences of the separator
RECURSIVE Split(_, _)
Split(s, c) ==
    LET p == Find(s, c) IN
    IF p = 0 THEN <<s>>
    ELSE <<SubSeq(s, 1, p - 1)>> \o Split(SubSeq(s, p + 1, Len(s)), c)

\* str::trim
RECURSIVE TrimStart(_)
TrimStart(s) ==
    IF s # <<>> /\ IsWhitespace(Head(s)) THEN TrimStart(Tail(s)) ELSE s

RECURSIVE TrimEnd(_)
TrimEnd(s) ==
    IF s # <<>> /\ IsWhitespace(s[Len(s)])
    THEN TrimEnd(SubSeq(s, 1, Len(s) - 1)) ELSE s

Trim(s) == TrimEnd(TrimStart(s))

\* [&str]::join(sep)
RECURSIVE Join(_, _)
Join(ls, sep) ==
    IF ls = <<>> THEN <<>>
    ELSE IF Len(ls) = 1 THEN ls[1]
    ELSE ls[1] \o sep \o Join(Tail(ls), sep)

\* All texts over an alphabet up to a length
RECURSIVE TextsUpTo(_, _)
TextsUpTo(alphabet, n) ==
    IF n = 0 THEN { <<>> }
    ELSE LET shorter == TextsUpTo(alphabet, n - 1) IN
         shorter \cup { Append(t, c) : t \in shorter, c \in alphabet }

----------------------------------------------------------------------------
(* BumpType (bump_type.rs) *)

BumpTypes == {"Major", "Minor", "Patch", "None"}

S_bang == <<"!">>
S_feat == <<"f","e","a","t">>
S_featBang == <<"f","e","a","t","!">>
S_fix == <<"f","i","x">>
S_perf == <<"p","e","r","f">>
S_security == <<"s","e","c","u","r","i","t","y">>
S_chore == <<"c","h","o","r","e">>
\* the literal written with a dash
S_breakingChange_dash ==
    <<"B","R","E","A","K","I","N","G","-","C","H","A","N","G","E",":">>

S_breakingChange ==
    <<"B","R","E","A","K","I","N","G"," ","C","H","A","N","G","E",":">>

\* the Minor and Patch arms exchanged
from_conventional_commit_swapped(msg) ==
    LET m == ToLowercase(msg) IN
    IF StartsWith(m, S_featBang) \/ Contains(m, S_bang) THEN "Major"
    ELSE IF StartsWith(m, S_feat) THEN "Patch"
    ELSE IF StartsWith(m, S_fix) \/ StartsWith(m, S_perf) THEN "Minor"
    ELSE "None"

\* BumpType::from_conventional_commit
from_conventional_commit(msg) ==
    LET m == ToLowercase(msg) IN
    IF StartsWith(m, S_featBang) \/ Contains(m, S_bang) THEN "Major"
    ELSE IF StartsWith(m, S_feat) THEN "Minor"
    ELSE IF StartsWith(m, S_fix) \/ StartsWith(m, S_perf) THEN "Patch"
    ELSE "None"

----------------------------------------------------------------------------
(* ConventionalCommit (conventional_commit.rs) *)

ErrMissingSeparator == "Invalid format: missing ':'"
ErrUnclosedScope == "Invalid format: unclosed parenthesis"

\* The footer test of one remainder line: "BREAKING CHANGE:" or a ':' somewhere
\* in a line that starts with an alphabetic or dash character
RECURSIVE TakeWhileTokenCount(_)
TakeWhileTokenCount(line) ==
    IF line # <<>> /\ (IsAlphabetic(Head(line)) \/ Head(line) = "-")
    THEN 1 + TakeWhileTokenCount(Tail(line))
    ELSE 0

IsFooterLine(line) ==
    \/ Contains(line, S_breakingChange)
    \/ (Contains(line, <<":">>) /\ TakeWhileTokenCount(line) > 0)

\* The loop over lines[1..]: blank lines are skipped, a footer line switches
\* in_footer on for good, each line goes to the footer or the body
RECURSIVE SplitBodyFooter(_, _, _, _)
SplitBodyFooter(rest, in_footer, body_lines, footer_lines) ==
    IF rest = <<>> THEN [body_lines |-> body_lines, footer_lines |-> footer_lines]
    ELSE LET line == Head(rest) IN
         IF Trim(line) = <<>>
         THEN SplitBodyFooter(Tail(rest), in_footer, body_lines, footer_lines)
         ELSE LET f == in_footer \/ IsFooterLine(line) IN
              IF f
              THEN SplitBodyFooter(Tail(rest), f, body_lines,
                                   Append(footer_lines, line))
              ELSE SplitBodyFooter(Tail(rest), f, Append(body_lines, line),
                                   footer_lines)

\* ConventionalCommit::parse
ParseCommit(msg) ==
    LET lines == Split(msg, NL)
        header == lines[1]
        header_breaking == Contains(header, S_bang)
        colon_pos == Find(header, ":")
    IN
    IF colon_pos = 0 THEN [kind |-> "Err", error |-> ErrMissingSeparator]
    ELSE
    LET type_raw == SubSeq(header, 1, colon_pos - 1)
        description == Trim(SubSeq(header, colon_pos + 1, Len(header)))
        type_part == RemoveChar(type_raw, "!")
        paren_start == Find(type_part, "(")
        paren_end == Find(type_part, ")")
    IN
    IF paren_start # 0 /\ paren_end = 0
    THEN [kind |-> "Err", error |-> ErrUnclosedScope]
    \* type_part[paren_start + 1..paren_end] with the start past the end:
    \* the slice index is out of order and the thread panics
    ELSE IF paren_start # 0 /\ paren_end < paren_start
    THEN [kind |-> "Panic"]
    ELSE
    LET commit_type == IF paren_start # 0
                       THEN SubSeq(type_part, 1, paren_start - 1)
                       ELSE type_part
        scope == IF paren_start # 0
                 THEN Some(SubSeq(type_part, paren_start + 1, paren_end - 1))
                 ELSE None
        bf == IF Len(lines) > 1
              THEN SplitBodyFooter(Tail(lines), FALSE, <<>>, <<>>)
              ELSE [body_lines |-> <<>>, footer_lines |-> <<>>]
        body == IF bf.body_lines # <<>>
                THEN Some(Join(bf.body_lines, <<NL>>)) ELSE None
        footer == IF bf.footer_lines # <<>>
                  THEN Some(Join(bf.footer_lines, <<NL>>)) ELSE None
        breaking_change ==
            \/ header_breaking
            \/ (footer # None /\ Contains(footer[1], S_breakingChange))
    IN [kind |-> "Ok",
        commit |-> [commit_type |-> commit_type,
                    scope |-> scope,
                    description |-> description,
                    body |-> body,
                    footer |-> footer,
                    breaking_change |-> breaking_change]]

\* ConventionalCommit::bump_type
bump_type(commit) ==
    IF commit.breaking_change THEN "Major"
    ELSE IF commit.commit_type = S_feat THEN "Minor"
    ELSE IF commit.commit_type \in {S_fix, S_perf, S_security} THEN "Patch"
    ELSE "None"

----------------------------------------------------------------------------
(* semver::Version as the program uses it: parse, Display, Ord *)

\* u64 Display
RECURSIVE NatToStr(_)
NatToStr(n) ==
    IF n < 10 THEN <<DigitChars[n + 1]>>
    ELSE NatToStr(n \div 10) \o <<DigitChars[(n % 10) + 1]>>

DigitValue(c) == (CHOOSE i \in DOMAIN DigitChars : DigitChars[i] = c) - 1

RECURSIVE DigitsValue(_)
DigitsValue(s) ==
    IF s = <<>> THEN 0
    ELSE DigitsValue(SubSeq(s, 1, Len(s) - 1)) * 10 + DigitValue(s[Len(s)])

AllDigits(s) == \A i \in DOMAIN s : IsDigit(s[i])

\* a numeric identifier: digits, no leading zero
IsNumericIdent(s) == s # <<>> /\ AllDigits(s) /\ (Len(s) = 1 \/ s[1] # "0")

IsIdentChar(c) == IsDigit(c) \/ IsAlphabetic(c) \/ c = "-"

\* a pre-release identifier: non-empty, [0-9A-Za-z-], numeric ones without
\* a leading zero
IsPreIdent(s) ==
    /\ s # <<>>
    /\ \A i \in DOMAIN s : IsIdentChar(s[i])
    /\ (AllDigits(s) => IsNumericIdent(s))

\* Version::parse for MAJOR.MINOR.PATCH[-PRE]; build metadata ('+') is outside
\* the alphabet of the tag names the model draws
ParseVersion(s) ==
    LET dash == Find(s, "-")
        core == IF dash = 0 THEN s ELSE SubSeq(s, 1, dash - 1)
        pre == IF dash = 0 THEN <<>> ELSE SubSeq(s, dash + 1, Len(s))
        parts == Split(core, ".")
        pre_ok == dash = 0 \/ \A i \in DOMAIN Split(pre, ".") :
                                  IsPreIdent(Split(pre, ".")[i])
    IN IF Len(parts) = 3 /\ (\A i \in 1..3 : IsNumericIdent(parts[i])) /\ pre_ok
       THEN Some([major |-> DigitsValue(parts[1]),
                  minor |-> DigitsValue(parts[2]),
                  patch |-> DigitsValue(parts[3]),
                  pre |-> pre])
       ELSE None

\* Version's Display
VersionToString(v) ==
    NatToStr(v.major) \o <<".">> \o NatToStr(v.minor) \o <<".">>
        \o NatToStr(v.patch)
        \o (IF v.pre = <<>> THEN <<>> ELSE <<"-">> \o v.pre)

\* the characters of tag names in ASCII order
AsciiOrder == <<"-", ".">> \o DigitChars \o UpperChars \o LowerChars
CharCode(c) == CHOOSE i \in DOMAIN AsciiOrder : AsciiOrder[i] = c

RECURSIVE StrLess(_, _)
StrLess(a, b) ==
    IF b = <<>> THEN FALSE
    ELSE IF a = <<>> THEN TRUE
    ELSE IF Head(a) = Head(b) THEN StrLess(Tail(a), Tail(b))
    ELSE CharCode(Head(a)) < CharCode(Head(b))

IdentLess(x, y) ==
    IF AllDigits(x) /\ AllDigits(y) THEN DigitsValue(x) < DigitsValue(y)
    ELSE IF AllDigits(x) THEN TRUE
    ELSE IF AllDigits(y) THEN FALSE
    ELSE StrLess(x, y)

RECURSIVE IdentsLess(_, _)
IdentsLess(a, b) ==
    IF b = <<>> THEN FALSE
    ELSE IF a = <<>> THEN TRUE
    ELSE IF Head(a) = Head(b) THEN IdentsLess(Tail(a), Tail(b))
    ELSE IdentLess(Head(a), Head(b))

\* Prerelease's Ord: a version without pre-release is the greater one
PreLess(p, q) ==
    IF p = <<>> THEN FALSE
    ELSE IF q = <<>> THEN TRUE
    ELSE IdentsLess(Split(p, "."), Split(q, "."))

\* Version's Ord: major, minor, patch, then the pre-release
VersionLess(a, b) ==
    \/ a.major < b.major
    \/ a.major = b.major /\ a.minor < b.minor
    \/ a.major = b.major /\ a.minor = b.minor /\ a.patch < b.patch
    \/ a.major = b.major /\ a.minor = b.minor /\ a.patch = b.patch
       /\ PreLess(a.pre, b.pre)

VersionLeq(a, b) == a = b \/ VersionLess(a, b)

\* the sort read from the wrong end
MaxVersion_first(vs) == CHOOSE v \in vs : \A w \in vs : VersionLeq(v, w)

\* versions.sort() and .last(): the greatest of a non-empty set of versions
MaxVersion(vs) == CHOOSE v \in vs : \A w \in vs : VersionLeq(w, v)

----------------------------------------------------------------------------
(* VersionManager (version_manager.rs) *)

\* a Minor bump that keeps the patch number
calculate_new_version_keeps_patch(current, bump) ==
    IF bump = "Major"
    THEN [current EXCEPT !.major = @ + 1, !.minor = 0, !.patch = 0]
    ELSE IF bump = "Minor"
    THEN [current EXCEPT !.minor = @ + 1]
    ELSE IF bump = "Patch"
    THEN [current EXCEPT !.patch = @ + 1]
    ELSE current

\* a Major bump that resets minor and patch without raising the major number
calculate_new_version_major_kept(current, bump) ==
    IF bump = "Major"
    THEN [current EXCEPT !.minor = 0, !.patch = 0]
    ELSE IF bump = "Minor"
    THEN [current EXCEPT !.minor = @ + 1, !.patch = 0]
    ELSE IF bump = "Patch"
    THEN [current EXCEPT !.patch = @ + 1]
    ELSE current

\* VersionManager::calculate_new_version
calculate_new_version(current, bump) ==
    IF bump = "Major"
    THEN [current EXCEPT !.major = @ + 1, !.minor = 0, !.patch = 0]
    ELSE IF bump = "Minor"
    THEN [current EXCEPT !.minor = @ + 1, !.patch = 0]
    ELSE IF bump = "Patch"
    THEN [current EXCEPT !.patch = @ + 1]
    ELSE current

\* the suffix left in place
DecodeTag_keeps_suffix(name, prefix, suffix) ==
    LET s1 == IF prefix # <<>> /\ StartsWith(name, prefix)
              THEN SubSeq(name, Len(prefix) + 1, Len(name))
              ELSE name
    IN ParseVersion(s1)

\* the body of the loop over the tags: prefix and suffix are stripped when
\* they are non-empty and match, the rest is parsed as a version
DecodeTag(name, prefix, suffix) ==
    LET s1 == IF prefix # <<>> /\ StartsWith(name, prefix)
              THEN SubSeq(name, Len(prefix) + 1, Len(name))
              ELSE name
        s2 == IF suffix # <<>> /\ EndsWith(s1, suffix)
              THEN SubSeq(s1, 1, Len(s1) - Len(suffix))
              ELSE s1
    IN ParseVersion(s2)

\* the versions pushed by the loop over the tag list
DecodedVersions(tag_list, prefix, suffix) ==
    { DecodeTag(tag_list[i], prefix, suffix)[1] :
        i \in { j \in DOMAIN tag_list :
                  DecodeTag(tag_list[j], prefix, suffix) # None } }

\* VersionManager::get_version_from_git_tags, given the tag list that
\* GitHubClient::get_tags returned
get_version_from_git_tags(tag_list, cfg) ==
    LET versions == DecodedVersions(tag_list, cfg.tag_prefix, cfg.tag_suffix) IN
    IF versions = {}
    THEN IF ParseVersion(cfg.initial_version) = None
         THEN [kind |-> "Err"]
         ELSE [kind |-> "Ok", version |-> ParseVersion(cfg.initial_version)[1]]
    ELSE [kind |-> "Ok", version |-> MaxVersion(versions)]

\* the tag name of a release: prefix, version, suffix
format_tag_name(version, cfg) ==
    cfg.tag_prefix \o VersionToString(version) \o cfg.tag_suffix

----------------------------------------------------------------------------
(* The pools the inputs are drawn from *)

EmptyMap == [x \in {} |-> 0]

S_v == <<"v">>
S_main == <<"m","a","i","n">>
S_v1 == <<"v","1">>
S_releaseMessage == <<"c","h","o","r","e",":"," ","r","e","l","e","a","s","e"," ","v","e","r","s","i","o","n"," ">>
S_releaseBranch == <<"r","e","l","e","a","s","e","-">>

M_feat == <<"f","e","a","t",":"," ","a">>
M_fix == <<"f","i","x",":"," ","a">>
M_featBang == <<"f","e","a","t","!",":"," ","a">>
M_chore == <<"c","h","o","r","e",":"," ","a">>

HeadMessages == {M_feat, M_fix, M_featBang, M_chore}

PrTitles == {<<"f","e","a","t",":"," ","a">>, <<"a"," ","t","i","t","l","e">>}

T_v010 == <<"v","0",".","1",".","0">>
T_v100 == <<"v","1",".","0",".","0">>
T_v110 == <<"v","1",".","1",".","0">>
T_v020 == <<"v","0",".","2",".","0">>
T_bare100 == <<"1",".","0",".","0">>
T_garbage == <<"g","a","r","b","a","g","e">>

DefaultConfig ==
    [tag_prefix |-> S_v, tag_suffix |-> <<>>, initial_version |-> <<"0",".","1",".","0">>]

GhTagPool == {T_v100, T_garbage}
LocalTagPool == {T_v100, T_v110, T_garbage}
FileKinds == {"absent", "marker", "plain", "unreadable"}
FileSetups == {<<"marker">>, <<"absent", "plain">>, <<"unreadable", "marker">>}

\* the sequences without repetition of up to n elements of a set
RECURSIVE ListsUpTo(_, _)
ListsUpTo(S, n) ==
    IF n = 0 THEN { <<>> }
    ELSE LET shorter == ListsUpTo(S, n - 1) IN
         shorter \cup { Append(l, x) : l \in shorter, x \in S }

NoRepeat(l) == \A i, j \in DOMAIN l : i # j => l[i] # l[j]

\* the tag maps of up to n tags of a pool, each on one of the given objects
TagMaps(pool, oids, n) ==
    UNION { [names -> oids] : names \in { ns \in SUBSET pool : Cardinality(ns) <= n } }

----------------------------------------------------------------------------
(* The local repository (git2) *)

\* repo.head()?.peel_to_commit()
HeadCommit == IF head.kind = "branch" THEN branches[head.name] ELSE head.oid

\* the branch named after the minor number
major_branch_name_minor(version) == S_v \o NatToStr(version.minor)

\* format!("v{}", version.major)
major_branch_name(version) == S_v \o NatToStr(version.major)

\* format!("chore: release version {}", version)
release_message(version) == S_releaseMessage \o VersionToString(version)

\* format!("release-{}-{}", &commit_sha[..8], unique_id)
temp_branch_name(oid) == S_releaseBranch \o NatToStr(oid)

\* find_previous_release_commit: the loop over the local tags, the same
\* stripping and parsing as version resolution
DecodeLocalTag(name, prefix, suffix) ==
    LET s1 == IF prefix # <<>> /\ StartsWith(name, prefix)
              THEN SubSeq(name, Len(prefix) + 1, Len(name))
              ELSE name
        s2 == IF suffix # <<>> /\ EndsWith(s1, suffix)
              THEN SubSeq(s1, 1, Len(s1) - Len(suffix))
              ELSE s1
    IN ParseVersion(s2)

\* the names of the local tags that decode to a version
versions_and_commits(tag_map, cfg) ==
    { n \in DOMAIN tag_map :
        DecodeLocalTag(n, cfg.tag_prefix, cfg.tag_suffix) # None }

\* find_previous_release_commit: the tags the sort can leave last, those of
\* the greatest version (tag_foreach fixes no order among equal versions)
latest_release_tags(tag_map, cfg) ==
    LET cand == versions_and_commits(tag_map, cfg)
        V(n) == DecodeLocalTag(n, cfg.tag_prefix, cfg.tag_suffix)[1]
    IN { n \in cand : \A m \in cand : VersionLeq(V(m), V(n)) }

\* the parents in the other order
release_parents_swapped(base_commit_oid, main) ==
    IF base_commit_oid = None THEN <<main>>
    ELSE <<main, base_commit_oid[1]>>

\* create_release_commit: the parents of the release commit
release_parents(base_commit_oid, main) ==
    IF base_commit_oid = None THEN <<main>>
    ELSE <<base_commit_oid[1], main>>

\* update_file_version on one file: its new state and whether it returned Ok
update_file_version(kind) ==
    IF kind = "absent" THEN [kind |-> "absent", ok |-> TRUE]
    ELSE IF kind = "unreadable" THEN [kind |-> "unreadable", ok |-> FALSE]
    ELSE IF kind = "marker" THEN [kind |-> "updated", ok |-> TRUE]
    ELSE [kind |-> kind, ok |-> TRUE]

\* create_release_commit: the loop over config.version.files, left by `?` at
\* the first file whose update fails
RECURSIVE update_files(_, _)
update_files(fs, i) ==
    IF i > Len(fs) THEN [files |-> fs, ok |-> TRUE]
    ELSE LET r == update_file_version(fs[i]) IN
         IF r.ok THEN update_files([fs EXCEPT ![i] = r.kind], i + 1)
         ELSE [files |-> fs, ok |-> FALSE]

\* HEAD left where it is
set_head_detached_skipped(hd, oid) == hd

\* repo.set_head_detached(oid)
set_head_detached(hd, oid) == [kind |-> "detached", oid |-> oid]

\* repo.commit(Some("HEAD"), ...) of the commit oid with the parents ps: an
\* error when the tip of HEAD is not the first parent; otherwise the reference
\* HEAD resolves to, a branch or the detached HEAD itself, moves to the commit
repo_commit(hd, refs, ps, oid) ==
    LET tip == IF hd.kind = "branch" THEN refs[hd.name] ELSE hd.oid IN
    IF tip # ps[1]
    THEN [ok |-> FALSE, head |-> hd, branches |-> refs]
    ELSE IF hd.kind = "branch"
    THEN [ok |-> TRUE, head |-> hd, branches |-> [refs EXCEPT ![hd.name] = oid]]
    ELSE [ok |-> TRUE, head |-> [kind |-> "detached", oid |-> oid],
          branches |-> refs]

\* whether commit a is b or an ancestor of b
RECURSIVE IsAncestor(_, _, _)
IsAncestor(cs, a, b) ==
    \/ a = b
    \/ \E i \in DOMAIN cs[b].parents : IsAncestor(cs, a, cs[b].parents[i])

----------------------------------------------------------------------------
(* ReleaseApplication::run, step by step *)

OutErr == [kind |-> "Err"]
OutExit1 == [kind |-> "Exit1"]
OutPanic == [kind |-> "Panic"]
OutOk(released, version, tag) ==
    [kind |-> "Ok", released |-> released, version |-> version, tag |-> tag]

UnsetParsed == [kind |-> "unset"]

\* the second run before it builds
OtherIdle ==
    [pc |-> "idle", version |-> None, parents |-> <<>>, commit_oid |-> 0,
     tag_name |-> <<>>]

RunLocalsInit ==
    /\ parsed = UnsetParsed
    /\ message = <<>>
    /\ version_bump = "unset"
    /\ current_version = None
    /\ new_version = None
    /\ main_commit = 0
    /\ parents = <<>>
    /\ commit_oid = 0
    /\ tag_name = <<>>
    /\ branch_name = <<>>
    /\ output = [kind |-> "none"]

Init ==
    /\ pc = "idle"
    /\ dry_run = FALSE
    /\ event_name = "push"
    /\ event_path_set = FALSE
    /\ pr_title = <<>>
    /\ RunLocalsInit
    /\ config = DefaultConfig
    /\ \E m \in HeadMessages :
         commits = << [parents |-> <<>>, message |-> M_chore],
                      [parents |-> <<1>>, message |-> m] >>
    /\ tags \in TagMaps(LocalTagPool, {0, 1, 2}, MaxLocalTags)
    /\ default_branch \in {S_main, S_v1}
    /\ \E extra \in {EmptyMap, S_v1 :> 1} :
         branches = (default_branch :> 2) @@ extra
    /\ head = [kind |-> "branch", name |-> default_branch]
    /\ files \in FileSetups
    /\ index = {}
    /\ built = <<>>
    /\ gh_tags \in { l \in ListsUpTo(GhTagPool, MaxGhTags) : NoRepeat(l) }
    /\ gh_branches = EmptyMap
    /\ gh_releases = <<>>
    /\ other = OtherIdle

\* an error raised once the release commit exists is recorded and the run
\* goes on to the push
End_goes_on(out) ==
    /\ pc' = IF out.kind = "Err" /\ commit_oid # 0 THEN "push" ELSE "done"
    /\ output' = out

\* a run ends: what it returned is kept until the next run starts
End(out) ==
    /\ pc' = "done"
    /\ output' = out

\* the locals of a run that has not started
ResetLocals ==
    /\ parsed' = UnsetParsed
    /\ message' = <<>>
    /\ version_bump' = "unset"
    /\ current_version' = None
    /\ new_version' = None
    /\ main_commit' = 0
    /\ parents' = <<>>
    /\ commit_oid' = 0
    /\ tag_name' = <<>>
    /\ branch_name' = <<>>
    /\ output' = [kind |-> "none"]

\* the run starts, with its flags and environment
StartRun ==
    /\ pc \in {"idle", "done"}
    /\ pc' = "validate"
    /\ dry_run' \in BOOLEAN
    /\ \E e \in {"push", "pull_request"} :
         /\ event_name' = e
         /\ IF e = "pull_request"
            THEN event_path_set' \in BOOLEAN /\ pr_title' \in PrTitles
            ELSE event_path_set' = FALSE /\ pr_title' = <<>>
    /\ ResetLocals
    /\ UNCHANGED <<other, config, repoVars, ghVars>>

\* the event name compared with another event
should_validate_pr_wrong_event == event_name = "push"

\* should_validate_pr
should_validate_pr == event_name = "pull_request"

\* validate_pr_title and the return that follows it in run
validate_pr_title ==
    /\ pc = "validate"
    /\ should_validate_pr /\ event_path_set
    /\ parsed' = ParseCommit(pr_title)
    /\ IF parsed'.kind = "Ok" THEN End(OutOk(FALSE, None, None))
       ELSE IF parsed'.kind = "Err" THEN End(OutExit1)
       ELSE End(OutPanic)
    /\ UNCHANGED <<dry_run, event_name, event_path_set, pr_title, message,
                   version_bump, current_version, new_version, main_commit,
                   parents, commit_oid, tag_name, branch_name>>
    /\ UNCHANGED <<other, config, repoVars, ghVars>>

\* no pull request event, or no event path: the run goes on
SkipValidation ==
    /\ pc = "validate"
    /\ ~(should_validate_pr /\ event_path_set)
    /\ pc' = "repo_info"
    /\ UNCHANGED <<dry_run, event_name, event_path_set, pr_title, parsed, message,
                   version_bump, current_version, new_version, main_commit,
                   parents, commit_oid, tag_name, branch_name, output>>
    /\ UNCHANGED <<other, config, repoVars, ghVars>>

\* the variables a step of the run leaves alone besides those it names
RunFrame == UNCHANGED <<dry_run, event_name, event_path_set, pr_title, parsed>>

\* the classification placed before the resolution of the version
get_repository_info_then_impact ==
    /\ pc = "repo_info"
    /\ pc' = "impact"
    /\ UNCHANGED <<dry_run, event_name, event_path_set, pr_title, parsed, message,
                   version_bump, current_version, new_version, main_commit,
                   parents, commit_oid, tag_name, branch_name, output>>
    /\ UNCHANGED <<other, config, repoVars, ghVars>>

\* GITHUB_TOKEN, GitHubClient::new and get_repository_info: they succeed or the
\* run ends with their error
get_repository_info ==
    /\ pc = "repo_info"
    /\ \E ok \in BOOLEAN :
         IF ok THEN pc' = "current_version" /\ output' = output
         ELSE End(OutErr)
    /\ RunFrame
    /\ UNCHANGED <<message, version_bump, current_version, new_version,
                   main_commit, parents, commit_oid, tag_name, branch_name>>
    /\ UNCHANGED <<other, config, repoVars, ghVars>>

\* VersionManager::get_current_version
get_current_version ==
    /\ pc = "current_version"
    /\ \E ok \in BOOLEAN :
         LET r == get_version_from_git_tags(gh_tags, config) IN
         IF ok /\ r.kind = "Ok"
         THEN /\ current_version' = Some(r.version)
              /\ pc' = "impact"
              /\ output' = output
         ELSE /\ current_version' = current_version
              /\ End(OutErr)
    /\ RunFrame
    /\ UNCHANGED <<message, version_bump, new_version,
                   main_commit, parents, commit_oid, tag_name, branch_name>>
    /\ UNCHANGED <<other, config, repoVars, ghVars>>

\* get_impact_from_latest_commit
get_impact_from_latest_commit ==
    /\ pc = "impact"
    /\ message' = commits[HeadCommit].message
    /\ version_bump' = from_conventional_commit(message')
    /\ pc' = "calculate"
    /\ RunFrame
    /\ UNCHANGED <<current_version, new_version, main_commit, parents,
                   commit_oid, tag_name, branch_name, output>>
    /\ UNCHANGED <<other, config, repoVars, ghVars>>

\* run: calculate_new_version
Calculate ==
    /\ pc = "calculate"
    /\ new_version' = Some(calculate_new_version(current_version[1], version_bump))
    /\ pc' = "decide"
    /\ RunFrame
    /\ UNCHANGED <<message, version_bump, current_version, main_commit, parents,
                   commit_oid, tag_name, branch_name, output>>
    /\ UNCHANGED <<other, config, repoVars, ghVars>>

\* the dry-run flag not looked at
build_allowed_ignores_dry_run(dry, bump) == bump # "None"

\* the bump not looked at
build_allowed_ignores_bump(dry, bump) == ~dry

\* run: create_release_commit is reached when neither the dry-run return nor
\* the return for a None bump is taken
build_allowed(dry, bump) == ~dry /\ bump # "None"

\* run: the dry-run return
ReturnDryRun ==
    /\ pc = "decide"
    /\ dry_run
    /\ End(OutOk(FALSE, Some(VersionToString(new_version[1])), None))
    /\ RunFrame
    /\ UNCHANGED <<message, version_bump, current_version, new_version,
                   main_commit, parents, commit_oid, tag_name, branch_name>>
    /\ UNCHANGED <<other, config, repoVars, ghVars>>

\* run: the return when the bump is None
ReturnNoRelease ==
    /\ pc = "decide"
    /\ ~dry_run
    /\ version_bump = "None"
    /\ End(OutOk(FALSE, Some(VersionToString(new_version[1])), None))
    /\ RunFrame
    /\ UNCHANGED <<message, version_bump, current_version, new_version,
                   main_commit, parents, commit_oid, tag_name, branch_name>>
    /\ UNCHANGED <<other, config, repoVars, ghVars>>

\* create_release_commit: find_previous_release_commit, repo.head() and the
\* parents
crc_FindPrevious ==
    /\ pc = "decide"
    /\ build_allowed(dry_run, version_bump)
    /\ LET latest == latest_release_tags(tags, config) IN
       \/ /\ latest = {}
          /\ main_commit' = HeadCommit
          /\ parents' = release_parents(None, HeadCommit)
          /\ pc' = "crc_files"
          /\ output' = output
       \/ \E n \in latest :
            IF tags[n] = 0
            \* repo.find_commit(oid) fails: the tag's object is no commit
            THEN /\ main_commit' = HeadCommit
                 /\ parents' = parents
                 /\ End(OutErr)
            ELSE /\ main_commit' = HeadCommit
                 /\ parents' = release_parents(Some(tags[n]), HeadCommit)
                 /\ pc' = "crc_files"
                 /\ output' = output
    /\ RunFrame
    /\ UNCHANGED <<message, version_bump, current_version, new_version,
                   commit_oid, tag_name, branch_name>>
    /\ UNCHANGED <<other, config, repoVars, ghVars>>

\* create_release_commit: the file updates
crc_UpdateFiles ==
    /\ pc = "crc_files"
    /\ LET r == update_files(files, 1) IN
       /\ files' = r.files
       /\ IF r.ok THEN pc' = "crc_stage" /\ output' = output
          ELSE End(OutErr)
    /\ RunFrame
    /\ UNCHANGED <<message, version_bump, current_version, new_version,
                   main_commit, parents, commit_oid, tag_name, branch_name>>
    /\ UNCHANGED <<other, config, commits, tags, branches, head, index, default_branch, built,
                   ghVars>>

\* create_release_commit: the index and the tree
crc_Stage ==
    /\ pc = "crc_stage"
    /\ index' = index \cup { i \in DOMAIN files : files[i] # "absent" }
    /\ pc' = "crc_detach"
    /\ RunFrame
    /\ UNCHANGED <<message, version_bump, current_version, new_version,
                   main_commit, parents, commit_oid, tag_name, branch_name, output>>
    /\ UNCHANGED <<other, config, commits, tags, branches, head, files, default_branch, built,
                   ghVars>>

\* create_release_commit: repo.set_head_detached(parents[0].id())
crc_Detach ==
    /\ pc = "crc_detach"
    /\ head' = set_head_detached(head, parents[1])
    /\ pc' = "crc_commit"
    /\ RunFrame
    /\ UNCHANGED <<message, version_bump, current_version, new_version,
                   main_commit, parents, commit_oid, tag_name, branch_name, output>>
    /\ UNCHANGED <<other, config, commits, tags, branches, files, index, default_branch, built,
                   ghVars>>

\* create_release_commit: repo.commit(Some("HEAD"), ...)
crc_Commit ==
    /\ pc = "crc_commit"
    /\ LET r == repo_commit(head, branches, parents, Len(commits) + 1) IN
       /\ head' = r.head
       /\ branches' = r.branches
       /\ IF r.ok
          THEN /\ commits' = Append(commits,
                                    [parents |-> parents,
                                     message |-> release_message(new_version[1])])
               /\ commit_oid' = Len(commits) + 1
               /\ pc' = "crc_tag"
               /\ output' = output
          ELSE /\ UNCHANGED <<commits, commit_oid>>
               /\ End(OutErr)
    /\ RunFrame
    /\ UNCHANGED <<message, version_bump, current_version, new_version,
                   main_commit, parents, tag_name, branch_name>>
    /\ UNCHANGED <<other, config, tags, files, index, default_branch, built, ghVars>>

\* a force that overwrites the tag of that name
tag_lightweight_forced(tag_map, name, oid) ==
    [ok |-> TRUE,
     tags |-> (name :> oid) @@ [n \in DOMAIN tag_map \ {name} |-> tag_map[n]]]

\* an existing tag taken for a success
tag_lightweight_tolerant(tag_map, name, oid) ==
    IF name \in DOMAIN tag_map
    THEN [ok |-> TRUE, tags |-> tag_map]
    ELSE [ok |-> TRUE, tags |-> (name :> oid) @@ tag_map]

\* repo.tag_lightweight(name, target, force = false): an error when a tag of
\* that name exists, the new tag otherwise
tag_lightweight(tag_map, name, oid) ==
    IF name \in DOMAIN tag_map
    THEN [ok |-> FALSE, tags |-> tag_map]
    ELSE [ok |-> TRUE, tags |-> (name :> oid) @@ tag_map]

\* create_release_commit: the tag name and repo.tag_lightweight
crc_Tag ==
    /\ pc = "crc_tag"
    /\ tag_name' = format_tag_name(new_version[1], config)
    /\ LET r == tag_lightweight(tags, tag_name', commit_oid) IN
       /\ tags' = r.tags
       /\ IF r.ok THEN pc' = "crc_branch" /\ output' = output
          ELSE End(OutErr)
    /\ RunFrame
    /\ UNCHANGED <<message, version_bump, current_version, new_version,
                   main_commit, parents, commit_oid, branch_name>>
    /\ UNCHANGED <<other, config, commits, branches, head, files, index, default_branch, built,
                   ghVars>>

\* an existing branch left where it points
upsert_major_branch_create_only(refs, name, oid) ==
    IF name \in DOMAIN refs THEN refs ELSE (name :> oid) @@ refs

\* the major-version branch after the upsert: set_target when the reference is
\* found, repo.reference when it is not
upsert_major_branch(refs, name, oid) ==
    IF name \in DOMAIN refs
    THEN [refs EXCEPT ![name] = oid]
    ELSE (name :> oid) @@ refs

\* create_release_commit: create or update the major version branch
crc_MajorBranch ==
    /\ pc = "crc_branch"
    /\ branches' = upsert_major_branch(branches,
                                       major_branch_name(new_version[1]),
                                       commit_oid)
    /\ built' = Append(built, [oid |-> commit_oid, version |-> new_version[1]])
    /\ pc' = "push"
    /\ RunFrame
    /\ UNCHANGED <<message, version_bump, current_version, new_version,
                   main_commit, parents, commit_oid, tag_name, branch_name, output>>
    /\ UNCHANGED <<other, config, commits, tags, head, files, index, default_branch,
                   ghVars>>

\* create_release_commit: a git2 call of the index, detach, commit, tag or
\* branch step returns an error
crc_GitError ==
    /\ pc \in {"crc_stage", "crc_detach", "crc_commit", "crc_tag", "crc_branch"}
    /\ End(OutErr)
    /\ RunFrame
    /\ UNCHANGED <<message, version_bump, current_version, new_version,
                   main_commit, parents, commit_oid, tag_name, branch_name>>
    /\ UNCHANGED <<other, config, repoVars, ghVars>>

\* push_commit_to_remote
push_commit_to_remote ==
    /\ pc = "push"
    /\ LET temp == temp_branch_name(commit_oid)
           major == major_branch_name(new_version[1])
           fast_forward == \/ major \notin DOMAIN gh_branches
                           \/ IsAncestor(commits, gh_branches[major],
                                         branches[major])
       IN
       IF temp \in DOMAIN branches
       \* repo.reference(&ref_name, ..., false, ...) fails: the reference exists
       THEN /\ End(OutErr)
            /\ UNCHANGED <<branches, gh_branches, branch_name>>
       ELSE \E ok \in BOOLEAN :
            IF ok /\ fast_forward
            THEN /\ gh_branches' = (temp :> commit_oid) @@
                                   upsert_major_branch(gh_branches, major,
                                                       branches[major])
                 /\ branches' = branches
                 /\ branch_name' = temp
                 /\ pc' = "release"
                 /\ output' = output
            \* remote.push fails: the temporary reference stays behind
            ELSE /\ branches' = (temp :> commit_oid) @@ branches
                 /\ UNCHANGED <<gh_branches, branch_name>>
                 /\ End(OutErr)
    /\ RunFrame
    /\ UNCHANGED <<message, version_bump, current_version, new_version,
                   main_commit, parents, commit_oid, tag_name>>
    /\ UNCHANGED <<other, config, commits, tags, head, files, index, default_branch, built,
                   gh_tags, gh_releases>>

\* GitHubClient::create_release: the platform records the release and creates
\* the tag when it has none of that name
create_release ==
    /\ pc = "release"
    /\ LET name == format_tag_name(new_version[1], config) IN
       \E ok \in BOOLEAN :
         IF ok /\ \A i \in DOMAIN gh_releases : gh_releases[i].tag_name # name
         THEN /\ gh_releases' = Append(gh_releases,
                                       [tag_name |-> name,
                                        target_commitish |-> commit_oid])
              /\ gh_tags' = IF \E i \in DOMAIN gh_tags : gh_tags[i] = name
                            THEN gh_tags ELSE <<name>> \o gh_tags
              /\ pc' = "delete_branch"
              /\ output' = output
         ELSE /\ UNCHANGED <<gh_releases, gh_tags>>
              /\ End(OutErr)
    /\ RunFrame
    /\ UNCHANGED <<message, version_bump, current_version, new_version,
                   main_commit, parents, commit_oid, tag_name, branch_name>>
    /\ UNCHANGED <<other, config, repoVars, gh_branches>>

\* delete_remote_branch and the return of run
delete_remote_branch ==
    /\ pc = "delete_branch"
    /\ \E ok \in BOOLEAN :
         IF ok
         THEN /\ gh_branches' = [n \in DOMAIN gh_branches \ {branch_name} |->
                                    gh_branches[n]]
              /\ End(OutOk(TRUE, Some(VersionToString(new_version[1])),
                           Some(format_tag_name(new_version[1], config))))
         ELSE /\ gh_branches' = gh_branches
              /\ End(OutErr)
    /\ RunFrame
    /\ UNCHANGED <<message, version_bump, current_version, new_version,
                   main_commit, parents, commit_oid, tag_name, branch_name>>
    /\ UNCHANGED <<other, config, repoVars, gh_tags, gh_releases>>

\* between runs the process of the last run is gone
BetweenRuns ==
    /\ pc \in {"idle", "done"}
    /\ pc' = "idle"
    /\ ResetLocals
    /\ UNCHANGED <<dry_run, event_name, event_path_set, pr_title>>

\* between runs: the working copy is put back on the default branch
Checkout ==
    /\ BetweenRuns
    /\ head.kind = "detached"
    /\ head' = [kind |-> "branch", name |-> default_branch]
    /\ UNCHANGED <<other, config, commits, tags, branches, files, index,
                   default_branch, built, ghVars>>

\* between runs: a new commit lands on the default branch and is checked out
DevCommit ==
    /\ BetweenRuns
    /\ \E m \in HeadMessages :
         commits' = Append(commits, [parents |-> <<branches[default_branch]>>,
                                     message |-> m])
    /\ branches' = [branches EXCEPT ![default_branch] = Len(commits) + 1]
    /\ head' = [kind |-> "branch", name |-> default_branch]
    /\ UNCHANGED <<other, config, tags, files, index, default_branch, built, ghVars>>

\* the steps of a run
RunStep ==
    \/ validate_pr_title
    \/ SkipValidation
    \/ get_repository_info
    \/ get_current_version
    \/ get_impact_from_latest_commit
    \/ Calculate
    \/ ReturnDryRun
    \/ ReturnNoRelease
    \/ crc_FindPrevious
    \/ crc_UpdateFiles
    \/ crc_Stage
    \/ crc_Detach
    \/ crc_Commit
    \/ crc_Tag
    \/ crc_MajorBranch
    \/ crc_GitError
    \/ push_commit_to_remote
    \/ create_release
    \/ delete_remote_branch

\* one run
Next ==
    \/ (pc = "idle" /\ StartRun)
    \/ RunStep

\* runs on a repository of every initial shape
Spec == Init /\ [][Next]_vars

----------------------------------------------------------------------------
(* Sequences of runs on one repository *)

InitRuns ==
    /\ pc = "idle"
    /\ dry_run = FALSE
    /\ event_name = "push"
    /\ event_path_set = FALSE
    /\ pr_title = <<>>
    /\ RunLocalsInit
    /\ config = DefaultConfig
    /\ \E m \in HeadMessages : commits = << [parents |-> <<>>, message |-> m] >>
    /\ tags \in {EmptyMap, T_v100 :> 1}
    /\ default_branch = S_main
    /\ branches = (default_branch :> 1)
    /\ head = [kind |-> "branch", name |-> default_branch]
    /\ files = <<"marker">>
    /\ index = {}
    /\ built = <<>>
    /\ gh_tags \in {<<>>, <<T_v100>>}
    /\ gh_branches = EmptyMap
    /\ gh_releases = <<>>
    /\ other = OtherIdle

NextRuns ==
    \/ (Len(commits) < MaxRunCommits /\ StartRun)
    \/ RunStep
    \/ Checkout
    \/ (Len(commits) + 1 < MaxRunCommits /\ DevCommit)

SpecRuns == InitRuns /\ [][NextRuns]_vars

----------------------------------------------------------------------------
(* Two runs that build the same version on one repository: the steps of
   create_release_commit of the second run, interleaved with the first *)

OtherFrame == UNCHANGED <<runVars, config, ghVars, default_branch>>

\* the second run has computed the version the first computed and calls
\* create_release_commit
other_Start ==
    /\ other.pc = "idle"
    /\ new_version # None
    /\ build_allowed(dry_run, version_bump)
    /\ other' = [other EXCEPT !.pc = "crc_find", !.version = new_version]
    /\ OtherFrame
    /\ UNCHANGED <<commits, tags, branches, head, files, index, built>>

\* find_previous_release_commit, repo.head() and the parents
other_FindPrevious ==
    /\ other.pc = "crc_find"
    /\ LET latest == latest_release_tags(tags, config) IN
       \/ /\ latest = {}
          /\ other' = [other EXCEPT !.pc = "crc_files",
                                    !.parents = release_parents(None, HeadCommit)]
       \/ \E n \in latest :
            IF tags[n] = 0
            THEN other' = [other EXCEPT !.pc = "failed"]
            ELSE other' = [other EXCEPT
                             !.pc = "crc_files",
                             !.parents = release_parents(Some(tags[n]), HeadCommit)]
    /\ OtherFrame
    /\ UNCHANGED <<commits, tags, branches, head, files, index, built>>

\* the file updates
other_UpdateFiles ==
    /\ other.pc = "crc_files"
    /\ LET r == update_files(files, 1) IN
       /\ files' = r.files
       /\ other' = [other EXCEPT !.pc = IF r.ok THEN "crc_stage" ELSE "failed"]
    /\ OtherFrame
    /\ UNCHANGED <<commits, tags, branches, head, index, built>>

\* the index and the tree
other_Stage ==
    /\ other.pc = "crc_stage"
    /\ index' = index \cup { i \in DOMAIN files : files[i] # "absent" }
    /\ other' = [other EXCEPT !.pc = "crc_detach"]
    /\ OtherFrame
    /\ UNCHANGED <<commits, tags, branches, head, files, built>>

\* repo.set_head_detached(parents[0].id())
other_Detach ==
    /\ other.pc = "crc_detach"
    /\ head' = set_head_detached(head, other.parents[1])
    /\ other' = [other EXCEPT !.pc = "crc_commit"]
    /\ OtherFrame
    /\ UNCHANGED <<commits, tags, branches, files, index, built>>

\* repo.commit(Some("HEAD"), ...)
other_Commit ==
    /\ other.pc = "crc_commit"
    /\ LET r == repo_commit(head, branches, other.parents, Len(commits) + 1) IN
       /\ head' = r.head
       /\ branches' = r.branches
       /\ IF r.ok
          THEN /\ commits' = Append(commits,
                                    [parents |-> other.parents,
                                     message |-> release_message(other.version[1])])
               /\ other' = [other EXCEPT !.pc = "crc_tag",
                                         !.commit_oid = Len(commits) + 1]
          ELSE /\ commits' = commits
               /\ other' = [other EXCEPT !.pc = "failed"]
    /\ OtherFrame
    /\ UNCHANGED <<tags, files, index, built>>

\* the tag name and repo.tag_lightweight
other_Tag ==
    /\ other.pc = "crc_tag"
    /\ LET name == format_tag_name(other.version[1], config)
           r == tag_lightweight(tags, name, other.commit_oid)
       IN /\ tags' = r.tags
          /\ other' = [other EXCEPT !.pc = IF r.ok THEN "crc_branch" ELSE "failed",
                                    !.tag_name = name]
    /\ OtherFrame
    /\ UNCHANGED <<commits, branches, head, files, index, built>>

\* create or update the major version branch
other_MajorBranch ==
    /\ other.pc = "crc_branch"
    /\ branches' = upsert_major_branch(branches,
                                       major_branch_name(other.version[1]),
                                       other.commit_oid)
    /\ built' = Append(built, [oid |-> other.commit_oid,
                               version |-> other.version[1]])
    /\ other' = [other EXCEPT !.pc = "built"]
    /\ OtherFrame
    /\ UNCHANGED <<commits, tags, head, files, index>>

\* a git2 call of the index, detach, commit, tag or branch step returns an error
other_GitError ==
    /\ other.pc \in {"crc_stage", "crc_detach", "crc_commit", "crc_tag", "crc_branch"}
    /\ other' = [other EXCEPT !.pc = "failed"]
    /\ OtherFrame
    /\ UNCHANGED <<commits, tags, branches, head, files, index, built>>

OtherStep ==
    \/ other_Start
    \/ other_FindPrevious
    \/ other_UpdateFiles
    \/ other_Stage
    \/ other_Detach
    \/ other_Commit
    \/ other_Tag
    \/ other_MajorBranch
    \/ other_GitError

NextConcurrent ==
    \/ (pc = "idle" /\ StartRun)
    \/ RunStep
    \/ OtherStep

SpecConcurrent == InitRuns /\ [][NextConcurrent]_vars

----------------------------------------------------------------------------
(* The classification of every message of a pool *)

TextAlphabet == {"a", "!", ":", NL}

Headers == {<<"f","e","a","t",":"," ">>, <<"f","i","x",":"," ">>, <<"f","e","a","t","!",":"," ">>, <<"c","h","o","r","e",":"," ">>, <<"s","e","c","u","r","i","t","y",":"," ">>, <<"p","e","r","f",":"," ">>,
            <<"f","e","a","t","u","r","e",":"," ">>, <<"F","i","x",":"," ">>, <<"f","e","a","t","(","a",")",":"," ">>, <<"d","o","c","s",":"," ">>,
            <<"f","e","a","t">>, <<"f","i","x","(","a",":"," ">>, <<"f","i","x",")","(",":"," ">>, <<>>}

FooterTexts == {<<"a","\n","\n","a"," ","a",":"," ","a","\n",":"," ","a">>,
               <<"a","\n","\n","B","R","E","A","K","I","N","G"," ","C","H","A","N","G","E",":"," ","a">>, <<"a","\n","\n","a","\n","R","e","f","s",":"," ","a">>}

Texts == TextsUpTo(TextAlphabet, MaxTextLen) \cup FooterTexts

MessagePool == { h \o t : h \in Headers, t \in Texts }

\* the variables of the repository and the platform, which classification and
\* version arithmetic do not touch
RestFixed ==
    /\ dry_run = FALSE
    /\ event_name = "push"
    /\ event_path_set = FALSE
    /\ pr_title = <<>>
    /\ main_commit = 0
    /\ parents = <<>>
    /\ commit_oid = 0
    /\ branch_name = <<>>
    /\ commits = << [parents |-> <<>>, message |-> M_chore] >>
    /\ tags = EmptyMap
    /\ default_branch = S_main
    /\ branches = (S_main :> 1)
    /\ head = [kind |-> "branch", name |-> S_main]
    /\ files = <<>>
    /\ index = {}
    /\ built = <<>>
    /\ gh_branches = EmptyMap
    /\ gh_releases = <<>>
    /\ other = OtherIdle

RestUnchanged ==
    UNCHANGED <<dry_run, event_name, event_path_set, pr_title, main_commit,
                parents, commit_oid, branch_name, repoVars, gh_branches,
                gh_releases, other>>

InitClassify ==
    /\ pc = "classify"
    /\ message \in MessagePool
    /\ version_bump = "unset"
    /\ parsed = UnsetParsed
    /\ current_version = None
    /\ new_version = None
    /\ tag_name = <<>>
    /\ output = [kind |-> "none"]
    /\ config = DefaultConfig
    /\ gh_tags = <<>>
    /\ RestFixed

\* get_impact_from_latest_commit on the message
ClassifyImpact ==
    /\ pc = "classify"
    /\ version_bump = "unset"
    /\ version_bump' = from_conventional_commit(message)
    /\ UNCHANGED <<pc, message, parsed, current_version, new_version, tag_name,
                   output, config, gh_tags>>
    /\ RestUnchanged

\* ConventionalCommit::parse on the message
ClassifyParse ==
    /\ pc = "classify"
    /\ parsed = UnsetParsed
    /\ parsed' = ParseCommit(message)
    /\ UNCHANGED <<pc, message, version_bump, current_version, new_version,
                   tag_name, output, config, gh_tags>>
    /\ RestUnchanged

NextClassify == ClassifyImpact \/ ClassifyParse

SpecClassify == InitClassify /\ [][NextClassify]_vars

----------------------------------------------------------------------------
(* Version resolution, calculation and tag naming over pools of tag lists
   and configurations *)

VersionTagPool == {<<"v","1",".","0",".","0","-","x","-","x">>,
                   <<"v","1",".","0",".","0">>, <<"v","2",".","3",".","1">>, <<"g","a","r","b","a","g","e">>, <<"1",".","0",".","0">>, <<"v","1",".","0",".","0","-","x">>,
                   <<"v","1","0",".","0",".","0">>}

InitialVersions ==
    { NatToStr(a) \o <<".">> \o NatToStr(b) \o <<".">> \o NatToStr(c) :
        a \in 0..MaxNum, b \in 0..MaxNum, c \in 0..MaxNum } \cup {T_garbage}

VersionConfigs ==
    [tag_prefix : {S_v, <<>>}, tag_suffix : {<<>>, <<"-","x">>},
     initial_version : InitialVersions]

InitVersion ==
    /\ pc = "resolve"
    /\ config \in VersionConfigs
    /\ gh_tags \in { l \in ListsUpTo(VersionTagPool, MaxTags) : NoRepeat(l) }
    /\ message = <<>>
    /\ version_bump = "unset"
    /\ parsed = UnsetParsed
    /\ current_version = None
    /\ new_version = None
    /\ tag_name = <<>>
    /\ output = [kind |-> "none"]
    /\ RestFixed

\* get_version_from_git_tags on the tag list
ResolveVersion ==
    /\ pc = "resolve"
    /\ LET r == get_version_from_git_tags(gh_tags, config) IN
       IF r.kind = "Ok"
       THEN current_version' = Some(r.version) /\ pc' = "bump" /\ output' = output
       ELSE current_version' = None /\ End(OutErr)
    /\ UNCHANGED <<message, version_bump, parsed, new_version, tag_name, config,
                   gh_tags>>
    /\ RestUnchanged

\* calculate_new_version for a bump
CalculateVersion ==
    /\ pc = "bump"
    /\ \E b \in BumpTypes :
         /\ version_bump' = b
         /\ new_version' = Some(calculate_new_version(current_version[1], b))
    /\ pc' = "name"
    /\ UNCHANGED <<message, parsed, current_version, tag_name, output, config,
                   gh_tags>>
    /\ RestUnchanged

\* the tag name create_release_commit composes for the new version
ComposeTagName ==
    /\ pc = "name"
    /\ tag_name' = format_tag_name(new_version[1], config)
    /\ pc' = "done"
    /\ UNCHANGED <<message, version_bump, parsed, current_version, new_version,
                   output, config, gh_tags>>
    /\ RestUnchanged

NextVersion == ResolveVersion \/ CalculateVersion \/ ComposeTagName

SpecVersion == InitVersion /\ [][NextVersion]_vars

----------------------------------------------------------------------------
(* Properties *)

P_feat == <<"f","e","a","t",":"," ">>
P_fix == <<"f","i","x",":"," ">>
P_featBang == <<"f","e","a","t","!",":"," ">>
P_chore == <<"c","h","o","r","e",":"," ">>

C2_RunSeverityIsBumpType ==
    (version_bump # "unset" /\ parsed.kind = "Ok")
        => version_bump = bump_type(parsed.commit)

\* C3: the new version is (major+1, 0, 0) for Major, (major, minor+1, 0) for
\* Minor, (major, minor, patch+1) for Patch, and the current version for None.
C3_NextVersion ==
    new_version # None =>
        LET c == current_version[1]
            n == new_version[1]
        IN /\ (version_bump = "Major"
                 => n.major = c.major + 1 /\ n.minor = 0 /\ n.patch = 0)
           /\ (version_bump = "Minor"
                 => n.major = c.major /\ n.minor = c.minor + 1 /\ n.patch = 0)
           /\ (version_bump = "Patch"
                 => n.major = c.major /\ n.minor = c.minor
                    /\ n.patch = c.patch + 1)
           /\ (version_bump = "None" => n = c)

C3_Witness ==
    /\ new_version # None
    /\ version_bump = "Minor"
    /\ current_version[1].patch > 0
    /\ current_version[1].major > 0

TripleLeq(a, b) ==
    \/ a.major < b.major
    \/ a.major = b.major /\ a.minor < b.minor
    \/ a.major = b.major /\ a.minor = b.minor /\ a.patch <= b.patch

\* C4: resolution returns the initial version when no tag decodes, otherwise a
\* decoded version that no decoded version exceeds by major, minor, patch; it
\* fails only when no tag decodes and the initial version is no version.
C4_Resolve ==
    pc # "resolve" =>
        LET dec(i) == DecodeTag(gh_tags[i], config.tag_prefix, config.tag_suffix)
            decodable == { i \in DOMAIN gh_tags : dec(i) # None }
            initial == ParseVersion(config.initial_version)
        IN IF decodable = {}
           THEN IF initial = None
                THEN current_version = None /\ output.kind = "Err"
                ELSE current_version = initial /\ output.kind # "Err"
           ELSE /\ output.kind # "Err"
                /\ \E i \in decodable : current_version = dec(i)
                /\ \A i \in decodable : TripleLeq(dec(i)[1], current_version[1])

C4_Witness ==
    /\ pc # "resolve"
    /\ gh_tags = << <<"v","1",".","0",".","0">>, <<"v","2",".","3",".","1">>, <<"g","a","r","b","a","g","e">> >>
    /\ config.tag_prefix = S_v
    /\ config.tag_suffix = <<>>
    /\ config.initial_version = <<"0",".","1",".","0">>
    /\ current_version = Some([major |-> 2, minor |-> 3, patch |-> 1, pre |-> <<>>])

\* C5: the tag name composed from prefix, version and suffix decodes back to
\* that version, by the decoding of version resolution and by that of the
\* previous-release lookup.
C5_TagRoundTrip ==
    tag_name # <<>> =>
        /\ DecodeTag(tag_name, config.tag_prefix, config.tag_suffix) = new_version
        /\ DecodeLocalTag(tag_name, config.tag_prefix, config.tag_suffix)
             = new_version

C5_Witness ==
    /\ tag_name # <<>>
    /\ config.tag_prefix # <<>>
    /\ config.tag_suffix # <<>>
    /\ new_version[1].pre # <<>>
    /\ new_version[1].minor > 0

\* C6: the release commit has the branch tip as its only parent when no local
\* tag decodes, and otherwise two parents: the target of the tag of the
\* greatest decoded version first, the branch tip second.
C6_ReleaseParents ==
    [][ Len(commits') = Len(commits) + 1 =>
          LET c == commits'[Len(commits')]
              V(n) == DecodeLocalTag(n, config.tag_prefix, config.tag_suffix)
              decodable == { n \in DOMAIN tags : V(n) # None }
              tip == branches[default_branch]
          IN IF decodable = {}
             THEN c.parents = <<tip>>
             ELSE /\ Len(c.parents) = 2
                  /\ c.parents[2] = tip
                  /\ \E n \in decodable :
                       /\ c.parents[1] = tags[n]
                       /\ \A m \in decodable : VersionLeq(V(m)[1], V(n)[1])
      ]_vars

C6_Witness ==
    /\ commit_oid # 0
    /\ Len(commits[commit_oid].parents) = 2
    /\ commits[commit_oid].parents[1] # commits[commit_oid].parents[2]

\* C7: the tag step of a build either creates the tag prefix + version +
\* suffix on the new release commit, leaving the other tags alone, or, when a
\* tag of that name exists, ends the build with an error and leaves the tags
\* as they were; a build that succeeded has that tag on the release commit.
C7_TagCreation ==
    [][ LET name == config.tag_prefix \o VersionToString(new_version[1])
                      \o config.tag_suffix
        IN /\ (pc = "crc_tag" /\ pc' # pc) =>
                 IF name \in DOMAIN tags
                 THEN pc' = "done" /\ output'.kind = "Err" /\ tags' = tags
                 ELSE pc' = "crc_branch" =>
                        /\ DOMAIN tags' = DOMAIN tags \cup {name}
                        /\ tags'[name] = commit_oid
                        /\ \A n \in DOMAIN tags : tags'[n] = tags[n]
           /\ (pc = "crc_branch" /\ pc' = "push") =>
                 (name \in DOMAIN tags' /\ tags'[name] = commit_oid')
      ]_vars

C7_Witness ==
    /\ pc = "done"
    /\ output.kind = "Err"
    /\ commit_oid # 0
    /\ tag_name # <<>>
    /\ tag_name \in DOMAIN tags
    /\ tags[tag_name] # commit_oid

\* C8: after a successful build the branch "v" + major exists and points at
\* the new release commit, whether it existed before or not.
C8_MajorBranch ==
    pc \in {"push", "release", "delete_branch"} =>
        LET b == <<"v">> \o NatToStr(new_version[1].major) IN
        b \in DOMAIN branches /\ branches[b] = commit_oid

C8_Witness ==
    /\ pc = "push"
    /\ <<"v">> \o NatToStr(new_version[1].major) = default_branch
    /\ branches[default_branch] = commit_oid

\* C9: for every major number a build succeeded for, the branch "v" + major
\* exists and points at the release commit of the last successful build of
\* that major number.
C9_MajorBranchLatest ==
    \A i \in DOMAIN built :
        LET M == built[i].version.major
            same == { j \in DOMAIN built : built[j].version.major = M }
            last == CHOOSE j \in same : \A k \in same : k <= j
            b == <<"v">> \o NatToStr(M)
        IN b \in DOMAIN branches /\ branches[b] = built[last].oid

C9_Witness ==
    /\ Len(built) = 2
    /\ built[1].version.major = built[2].version.major
    /\ built[1].oid # built[2].oid

\* C10: no step of a run in dry-run mode changes the commits, tags, branches,
\* HEAD, the configured files, the index, or the platform's tags, branches
\* and releases, and a dry run that returns reports released = false.
C10_DryRunFrame ==
    [][ (dry_run /\ pc \notin {"idle", "done"}) =>
          /\ UNCHANGED <<commits, tags, branches, head, files, index>>
          /\ UNCHANGED <<gh_tags, gh_branches, gh_releases>>
          /\ (pc' = "done" /\ output'.kind = "Ok" => output'.released = FALSE)
      ]_vars

C10_Witness ==
    /\ pc = "done"
    /\ dry_run
    /\ event_name = "push"
    /\ output.kind = "Ok"
    /\ version_bump = "Minor"
    /\ files[1] = "marker"

\* C11: once the severity of the head commit is None, no step of the run
\* changes the commits, tags, branches, HEAD, files, index or the platform, the
\* run goes nowhere but to its return, and it returns Ok with released = false
\* and the resolved current version.
C11_NoneBumpNoRelease ==
    [][ (version_bump = "None" /\ pc \notin {"idle", "done"}) =>
          /\ UNCHANGED <<commits, tags, branches, head, files, index>>
          /\ UNCHANGED <<gh_tags, gh_branches, gh_releases>>
          /\ pc' \in {"decide", "done"}
          /\ (pc' = "done" =>
                output' = [kind |-> "Ok", released |-> FALSE,
                           version |-> Some(VersionToString(current_version[1])),
                           tag |-> None])
      ]_vars

C11_Witness ==
    /\ pc = "done"
    /\ version_bump = "None"
    /\ ~dry_run
    /\ output.kind = "Ok"
    /\ output.version = Some(<<"1",".","0",".","0">>)
    /\ Len(commits) = 2

\* the header line: the text before the first newline
HeaderLine(msg) ==
    IF Find(msg, NL) = 0 THEN msg ELSE SubSeq(msg, 1, Find(msg, NL) - 1)

\* C12: parse fails with the missing-separator error exactly when the header
\* line holds no ':'; when it holds one and the part before the first ':' has
\* a '(' and no ')', parse fails with the unclosed-scope error.
C12_ParseErrors ==
    parsed # UnsetParsed =>
        LET h == HeaderLine(message)
            c == Find(h, ":")
            before == SubSeq(h, 1, c - 1)
        IN /\ (parsed = [kind |-> "Err", error |-> "Invalid format: missing ':'"])
                <=> (c = 0)
           /\ (c # 0 /\ "(" \in Range(before) /\ ")" \notin Range(before))
                => parsed = [kind |-> "Err",
                             error |-> "Invalid format: unclosed parenthesis"]

C12_Witness ==
    /\ parsed = [kind |-> "Err", error |-> "Invalid format: missing ':'"]
    /\ Contains(message, <<":">>)
    /\ Len(HeaderLine(message)) > 0

\* C13: a build that got past the lookup of the previous release has, when it
\* ends, applied every file rule: no configured file is left with its marker,
\* whether or not the update of another file failed.
C13_FileFailureSkipped ==
    (pc = "done" /\ parents # <<>>) =>
        \A i \in DOMAIN files : files[i] # "marker"

\* C14: in a run on a pull request event whose title does not parse, the run
\* is at the validation or has ended with exit status 1 and the parse error,
\* and no version was resolved, no severity classified, no next version
\* calculated and nothing of a release built.
C14_PrTitleFailFast ==
    (pc # "idle" /\ event_name = "pull_request" /\ event_path_set
       /\ ParseCommit(pr_title).kind = "Err") =>
        /\ pc \in {"validate", "done"}
        /\ (pc = "done" => output = [kind |-> "Exit1"]
                           /\ parsed = ParseCommit(pr_title))
        /\ current_version = None
        /\ version_bump = "unset"
        /\ new_version = None
        /\ parents = <<>>
        /\ commit_oid = 0

C14_Witness ==
    /\ pc = "done"
    /\ event_name = "pull_request"
    /\ output.kind = "Exit1"
    /\ parsed.kind = "Err"

C16_PreviousIsCurrent ==
    parents # <<>> =>
        LET gh_decodes == \E i \in DOMAIN gh_tags :
                DecodeTag(gh_tags[i], config.tag_prefix, config.tag_suffix) # None
        IN /\ (Len(parents) = 2 =>
                 \E n \in DOMAIN tags :
                    /\ tags[n] = parents[1]
                    /\ DecodeLocalTag(n, config.tag_prefix, config.tag_suffix)
                         = current_version)
           /\ (gh_decodes => Len(parents) = 2)
           /\ (~gh_decodes => Len(parents) = 1)

\* C17 as stated: within a run the resolution of the current version has not
\* happened before the classification, the calculation not before the
\* resolution, the construction not before the calculation.
C17_PhaseOrder ==
    /\ (current_version # None => version_bump # "unset")
    /\ (new_version # None => current_version # None)
    /\ (main_commit # 0 => new_version # None)

\* C17 amended: within a run the classification has not happened before the
\* resolution of the current version, the calculation not before the
\* classification, the construction not before the calculation, and no step
\* of the run belongs to two phases.
C17_PhaseOrderResolutionFirst ==
    /\ (version_bump # "unset" => current_version # None)
    /\ (new_version # None => version_bump # "unset")
    /\ (main_commit # 0 => new_version # None)
    /\ (pc = "current_version" =>
          current_version = None /\ version_bump = "unset" /\ new_version = None)
    /\ (pc = "impact" => version_bump = "unset" /\ new_version = None)
    /\ (pc = "calculate" => new_version = None /\ main_commit = 0)

C17_Witness ==
    /\ pc = "crc_files"
    /\ main_commit # 0
    /\ new_version # None
    /\ version_bump = "Patch"
    /\ current_version # None

\* C18: a step of the build that returns an error ends the run with that
\* error: the step adds no commit, tag or branch, nothing has been pushed and
\* no release recorded, and no state holds an error in a run that goes on.
C18_BuildFailureAborts ==
    [][ (pc \in {"decide", "crc_files", "crc_stage", "crc_detach", "crc_commit",
                 "crc_tag", "crc_branch"}
           /\ output'.kind = "Err") =>
          /\ pc' = "done"
          /\ UNCHANGED <<commits, tags, branches>>
          /\ gh_branches' = [x \in {} |-> 0]
          /\ gh_releases' = <<>>
          /\ gh_tags' = gh_tags
      ]_vars

C18_Witness ==
    /\ pc = "done"
    /\ output.kind = "Err"
    /\ tag_name # <<>>
    /\ tags[tag_name] = commit_oid
    /\ built = <<>>
    /\ gh_releases = <<>>

\* C19: for every message that parses, breaking_change is true exactly when
\* the header line holds a '!' or the footer holds "BREAKING CHANGE:".
C19_BreakingChange ==
    parsed.kind = "Ok" =>
        (parsed.commit.breaking_change
           <=> \/ "!" \in Range(HeaderLine(message))
               \/ /\ parsed.commit.footer # None
                  /\ Contains(parsed.commit.footer[1], <<"B","R","E","A","K","I","N","G"," ","C","H","A","N","G","E",":">>))

C19_Witness ==
    /\ parsed.kind = "Ok"
    /\ parsed.commit.breaking_change
    /\ "!" \notin Range(message)
    /\ parsed.commit.footer # None
    /\ parsed.commit.body = None

\* the footer test of the claim: "BREAKING CHANGE:" in the line, or a
\* non-empty run of alphabetic or dash characters with ':' right after it
TokenFooterLine(line) ==
    \/ Contains(line, <<"B","R","E","A","K","I","N","G"," ","C","H","A","N","G","E",":">>)
    \/ LET k == TakeWhileTokenCount(line) IN
       k > 0 /\ k < Len(line) /\ line[k + 1] = ":"

\* the remainder lines that are not blank, in order, each with whether it or
\* an earlier one passes the test of the claim
RECURSIVE TokenSplit(_, _, _, _)
TokenSplit(rest, in_footer, body_lines, footer_lines) ==
    IF rest = <<>> THEN [body_lines |-> body_lines, footer_lines |-> footer_lines]
    ELSE IF Trim(Head(rest)) = <<>>
    THEN TokenSplit(Tail(rest), in_footer, body_lines, footer_lines)
    ELSE IF in_footer \/ TokenFooterLine(Head(rest))
    THEN TokenSplit(Tail(rest), TRUE, body_lines, Append(footer_lines, Head(rest)))
    ELSE TokenSplit(Tail(rest), FALSE, Append(body_lines, Head(rest)), footer_lines)

\* C20: for every message that parses, the footer is the non-blank remainder
\* lines from the first one that holds "BREAKING CHANGE:" or starts with a
\* token immediately followed by ':', the body the non-blank lines before it,
\* each in the original order.
C20_BodyFooterSplit ==
    parsed.kind = "Ok" =>
        LET ts == TokenSplit(Tail(Split(message, NL)), FALSE, <<>>, <<>>) IN
        /\ parsed.commit.body =
             (IF ts.body_lines = <<>> THEN None
              ELSE Some(Join(ts.body_lines, <<NL>>)))
        /\ parsed.commit.footer =
             (IF ts.footer_lines = <<>> THEN None
              ELSE Some(Join(ts.footer_lines, <<NL>>)))

\* the place of a severity in the order Major > Minor > Patch > None
SeverityRank(s) ==
    IF s = "Major" THEN 3 ELSE IF s = "Minor" THEN 2 ELSE IF s = "Patch" THEN 1
    ELSE 0

\* C21: the next version of v for a severity is at least the next version of
\* v for every lower severity and at most that for every higher one, it is at
\* least v, and it is v only when the severity is None.
C21_Monotone ==
    new_version # None =>
        LET v == current_version[1]
            n == new_version[1]
        IN /\ VersionLeq(v, n)
           /\ (n = v => version_bump = "None")
           /\ \A s \in BumpTypes :
                LET w == calculate_new_version(v, s) IN
                /\ VersionLeq(v, w)
                /\ (SeverityRank(s) <= SeverityRank(version_bump)
                      => VersionLeq(w, n))
                /\ (SeverityRank(s) >= SeverityRank(version_bump)
                      => VersionLeq(n, w))

C21_Witness ==
    /\ new_version # None
    /\ version_bump = "Major"
    /\ current_version[1].minor > 0
    /\ current_version[1].patch > 0
    /\ new_version[1].major = current_version[1].major + 1

\* C22: no step of a build changes a branch other than "v" + major or a tag
\* that existed before the step, removes a reference, or adds a reference
\* other than the branch "v" + major and the tag of the new version.
C22_BuildRefsFrame ==
    [][ (pc \in {"decide", "crc_files", "crc_stage", "crc_detach", "crc_commit",
                 "crc_tag", "crc_branch"}) =>
          LET major == <<"v">> \o NatToStr(new_version[1].major)
              name == config.tag_prefix \o VersionToString(new_version[1])
                        \o config.tag_suffix
          IN /\ \A b \in DOMAIN branches \ {major} :
                   b \in DOMAIN branches' /\ branches'[b] = branches[b]
             /\ DOMAIN branches \subseteq DOMAIN branches'
             /\ DOMAIN branches' \subseteq DOMAIN branches \cup {major}
             /\ \A t \in DOMAIN tags :
                   t \in DOMAIN tags' /\ tags'[t] = tags[t]
             /\ DOMAIN tags' \subseteq DOMAIN tags \cup {name}
      ]_vars

C22_Witness ==
    /\ pc = "push"
    /\ default_branch = <<"m","a","i","n">>
    /\ branches[default_branch] = 2
    /\ <<"v","1">> \in DOMAIN branches
    /\ branches[<<"v","1">>] = 1
    /\ new_version[1].major = 0
    /\ branches[<<"v","0">>] = commit_oid
    /\ Cardinality(DOMAIN tags) = 3

\* C23: parse returns a parsed commit or a parse error for every message and
\* never aborts, also when a ')' comes before the '(' in the part of the
\* header before the first ':'.
C23_ParseTotal ==
    parsed # UnsetParsed => parsed.kind \in {"Ok", "Err"}

\* C24: when a run that pushed a temporary release branch has ended, that
\* branch is no longer on the remote, whether the steps after the push
\* succeeded or failed.
C24_TempBranchDeleted ==
    (pc = "done" /\ branch_name # <<>>) =>
        branch_name \notin DOMAIN gh_branches

\* C25: the version of a release that was built is strictly greater than
\* every version decodable from a tag that existed before the run, in the
\* local repository or in the platform's list, and no two release commits of
\* the repository carry the same version.
C25_VersionsIncrease ==
    /\ pc = "push" =>
          LET n == new_version[1]
              L(t) == DecodeLocalTag(t, config.tag_prefix, config.tag_suffix)
              G(i) == DecodeTag(gh_tags[i], config.tag_prefix, config.tag_suffix)
          IN /\ \A t \in DOMAIN tags \ {tag_name} :
                   L(t) # None => VersionLeq(L(t)[1], n) /\ L(t)[1] # n
             /\ \A i \in DOMAIN gh_tags :
                   G(i) # None => VersionLeq(G(i)[1], n) /\ G(i)[1] # n
    /\ \A i, j \in DOMAIN commits :
          (/\ StartsWith(commits[i].message,
                         <<"c","h","o","r","e",":"," ","r","e","l","e","a","s","e"," ","v","e","r","s","i","o","n"," ">>)
           /\ commits[i].message = commits[j].message) => i = j

\* C26: when create_release_commit has returned an error, HEAD is on the
\* branch it was on before the call, and no tag and no branch points at a
\* commit the call created.
C26_FailedBuildRestores ==
    (pc = "done" /\ output.kind = "Err" /\ main_commit # 0 /\ built = <<>>) =>
        /\ head = [kind |-> "branch", name |-> default_branch]
        /\ (commit_oid # 0 =>
              /\ \A t \in DOMAIN tags : tags[t] # commit_oid
              /\ \A b \in DOMAIN branches : branches[b] # commit_oid)

\* C27: a run on a pull_request event creates no commit, tag, branch, push
\* or release record, and when it returns it reports released = false.
C27_PullRequestNoRelease ==
    (event_name = "pull_request" /\ pc # "idle") =>
        /\ main_commit = 0
        /\ commit_oid = 0
        /\ tag_name = <<>>
        /\ branch_name = <<>>
        /\ Len(commits) = 2
        /\ gh_branches = [x \in {} |-> 0]
        /\ gh_releases = <<>>
        /\ (pc = "done" /\ output.kind = "Ok" => output.released = FALSE)

============================================================================
